---------------------------- MODULE Spec2Model ----------------------------
(***************************************************************************)
(* Habit tracker: the SQLite-backed data layer (habits, completions,       *)
(* achievements), its streak computation and its achievement award and     *)
(* invalidation passes.                                                    *)
(*                                                                         *)
(* A calendar day 'YYYY-MM-DD' is the triple <<y, m, d>>; the string       *)
(* order the code relies on is the lexicographic order of the triple.      *)
(* The achievements table is a set of rows, each with a copy number:       *)
(* SQLite's UNIQUE(type, habit_id, earned_date) treats a NULL habit_id as  *)
(* distinct from every other NULL, so the table can hold several rows      *)
(* equal in all three columns.                                             *)
(***************************************************************************)
EXTENDS Integers, Sequences, FiniteSets, TLC

VARIABLES habits, completions, achievements, today, last, pre, steps, tx

vars == <<habits, completions, achievements, today, last, pre, steps, tx>>

(***************************************************************************)
(* Bounds of the model.                                                    *)
(***************************************************************************)
MaxSteps == 2

\* Transactions a behaviour of SpecTx opens.
MaxTx == 2

NULL == "NULL"

HabitIds == {"A", "B", "C"}

(***************************************************************************)
(* Calendar utilities.                                                     *)
(***************************************************************************)
IsLeap(y) == (y % 4 = 0 /\ y % 100 # 0) \/ y % 400 = 0

\* daysInMonth(year, month): new Date(year, month, 0).getDate()
daysInMonth(year, month) ==
  IF month \in {4, 6, 9, 11} THEN 30
  ELSE IF month = 2 THEN (IF IsLeap(year) THEN 29 ELSE 28)
  ELSE 31

\* The Date object's normalisation of an out-of-range day of month, as
\* setDate(getDate() + days) yields it.
RECURSIVE NormalizeDate(_, _, _)
NormalizeDate(y, m, d) ==
  IF d < 1 THEN
    LET pm == IF m = 1 THEN 12 ELSE m - 1
        py == IF m = 1 THEN y - 1 ELSE y
    IN NormalizeDate(py, pm, d + daysInMonth(py, pm))
  ELSE IF d > daysInMonth(y, m) THEN
    LET nm == IF m = 12 THEN 1 ELSE m + 1
        ny == IF m = 12 THEN y + 1 ELSE y
    IN NormalizeDate(ny, nm, d - daysInMonth(y, m))
  ELSE <<y, m, d>>

\* shiftDateStr(dateStr, days)
shiftDateStr(dateStr, days) == NormalizeDate(dateStr[1], dateStr[2], dateStr[3] + days)

\* String comparison of two 'YYYY-MM-DD' dates (SQL <= and JS >).
DateLE(a, b) ==
  \/ a[1] < b[1]
  \/ a[1] = b[1] /\ a[2] < b[2]
  \/ a[1] = b[1] /\ a[2] = b[2] /\ a[3] <= b[3]

DateLT(a, b) == DateLE(a, b) /\ a # b

\* Variant: the date itself, not cut to its month.
MonthStartUncut(date) == date

\* date.slice(0, 7) + '-01'
MonthStart(date) == <<date[1], date[2], 1>>

(***************************************************************************)
(* The store.                                                              *)
(***************************************************************************)
Thresholds == {7, 14, 21}

StreakType(n) == IF n = 7 THEN "streak_7" ELSE IF n = 14 THEN "streak_14" ELSE "streak_21"

\* One row of the achievements table. copy numbers the rows that are equal in
\* (type, habit_id, earned_date), standing for their distinct rowids.
Row(type, hid, date, copy) ==
  [type |-> type, habit_id |-> hid, earned_date |-> date, copy |-> copy]

\* The rows equal to (type, hid, date).
RowsOf(ach, type, hid, date) ==
  {r \in ach : r.type = type /\ r.habit_id = hid /\ r.earned_date = date}

\* INSERT OR IGNORE INTO achievements: UNIQUE(type, habit_id, earned_date)
\* rejects a row only when an equal row with a non-NULL habit_id exists; two
\* NULLs are distinct to the constraint.
insertAchievement(ach, type, hid, date) ==
  LET same == RowsOf(ach, type, hid, date) IN
  IF same # {} /\ hid # NULL THEN ach
  ELSE ach \cup {Row(type, hid, date, Cardinality(same) + 1)}

\* insertAchievement.run(type, hid, date) once for each <<type, hid, date>> of
\* keys; the keys differ, so no insertion depends on another.
InsertEach(ach, keys) ==
  UNION ({ach} \cup {insertAchievement(ach, k[1], k[2], k[3]) : k \in keys})

\* DELETE FROM achievements WHERE ..., matching the rows matched
DeleteRows(ach, matched) == ach \ matched

\* SELECT 1 FROM completions WHERE date = ? AND habit_id = ?
checkCompletion(compl, date, id) == <<date, id>> \in compl

\* Variant: the day view's condition, without created_date <= ?.
ActiveHabitsVisible(hs, date) ==
  {id \in DOMAIN hs : ~(hs[id].deleted /\ DateLE(hs[id].deleted_date, date))}

\* SELECT id FROM habits WHERE created_date <= ? AND NOT (deleted = 1 AND deleted_date <= ?)
ActiveHabits(hs, date) ==
  {id \in DOMAIN hs :
     /\ DateLE(hs[id].created_date, date)
     /\ ~(hs[id].deleted /\ DateLE(hs[id].deleted_date, date))}


(***************************************************************************)
(* Achievements: invalidation pass.                                        *)
(***************************************************************************)
\* Variant: earned_date > date, the day of the cleared completion left out.
InStreakWindowAfter(r, date, n) ==
  /\ r.type = StreakType(n)
  /\ DateLT(date, r.earned_date)
  /\ DateLE(r.earned_date, shiftDateStr(date, n - 1))

\* Variant: endDate = shiftDateStr(date, n), one day too far.
InStreakWindowLong(r, date, n) ==
  /\ r.type = StreakType(n)
  /\ DateLE(date, r.earned_date)
  /\ DateLE(r.earned_date, shiftDateStr(date, n))

\* The earned_date range of one streak type, date .. date + (n - 1).
InStreakWindow(r, date, n) ==
  /\ r.type = StreakType(n)
  /\ DateLE(date, r.earned_date)
  /\ DateLE(r.earned_date, shiftDateStr(date, n - 1))

\* Variant: the per-habit deletes without their habit_id = ? condition.
removeInvalidAchievementsAnyHabit(ach, date, habitId) ==
  LET monthStr == MonthStart(date)
      a1 == DeleteRows(ach, {r \in ach :
              r.type = "perfect_day" /\ r.habit_id = NULL /\ r.earned_date = date})
      a2 == DeleteRows(a1, {r \in a1 : \E n \in Thresholds : InStreakWindow(r, date, n)})
  IN DeleteRows(a2, {r \in a2 : r.type = "perfect_month" /\ r.earned_date = monthStr})

removeInvalidAchievements(ach, date, habitId) ==
  LET monthStr == MonthStart(date)
      a1 == DeleteRows(ach, {r \in ach :
              r.type = "perfect_day" /\ r.habit_id = NULL /\ r.earned_date = date})
      a2 == DeleteRows(a1, {r \in a1 :
              r.habit_id = habitId /\ \E n \in Thresholds : InStreakWindow(r, date, n)})
      a3 == DeleteRows(a2, {r \in a2 :
              r.habit_id = NULL /\ \E n \in Thresholds : InStreakWindow(r, date, n)})
      a4 == DeleteRows(a3, {r \in a3 :
              r.type = "perfect_month" /\ r.habit_id = habitId /\ r.earned_date = monthStr})
  IN DeleteRows(a4, {r \in a4 :
       r.type = "perfect_month" /\ r.habit_id = NULL /\ r.earned_date = monthStr})

(***************************************************************************)
(* Achievements: award pass.                                               *)
(***************************************************************************)
\* let streak = 0; while (checkCompletion.get(checkDay, id)) { streak++; checkDay = shiftDateStr(checkDay, -1) }
RECURSIVE StreakWalk(_, _, _)
StreakWalk(compl, id, checkDay) ==
  IF checkCompletion(compl, checkDay, id)
    THEN 1 + StreakWalk(compl, id, shiftDateStr(checkDay, -1))
    ELSE 0

\* Variant: without the dayHabits.length === 0 test.
DayAllCompletedVacuous(hs, compl, checkDay) ==
  \A h \in ActiveHabits(hs, checkDay) : checkCompletion(compl, checkDay, h)

\* dayHabits.length > 0 and dayHabits.every(completed on checkDay)
DayAllCompleted(hs, compl, checkDay) ==
  LET dayHabits == ActiveHabits(hs, checkDay)
  IN dayHabits # {} /\ \A h \in dayHabits : checkCompletion(compl, checkDay, h)

AwardPerfectDay(compl, ach, habitIds, date) ==
  IF \A id \in habitIds : checkCompletion(compl, date, id)
    THEN insertAchievement(ach, "perfect_day", NULL, date)
    ELSE ach

\* Variant: the walk starts the day before date, as in getStreaks for today.
AwardHabitStreaksFromYesterday(compl, ach, habitIds, date) ==
  InsertEach(ach, {<<StreakType(x[2]), x[1], date>> :
                     x \in {y \in habitIds \X Thresholds :
                              1 + StreakWalk(compl, y[1], shiftDateStr(date, -1)) >= y[2]}})

\* Variant: streak = n for streak >= n.
AwardHabitStreaksExact(compl, ach, habitIds, date) ==
  InsertEach(ach, {<<StreakType(x[2]), x[1], date>> :
                     x \in {y \in habitIds \X Thresholds :
                              StreakWalk(compl, y[1], date) = y[2]}})

\* Variant: streak > n for streak >= n.
AwardHabitStreaksStrict(compl, ach, habitIds, date) ==
  InsertEach(ach, {<<StreakType(x[2]), x[1], date>> :
                     x \in {y \in habitIds \X Thresholds :
                              StreakWalk(compl, y[1], date) > y[2]}})

AwardHabitStreaks(compl, ach, habitIds, date) ==
  InsertEach(ach, {<<StreakType(x[2]), x[1], date>> :
                     x \in {y \in habitIds \X Thresholds :
                              StreakWalk(compl, y[1], date) >= y[2]}})

AwardGlobalStreaks(hs, compl, ach, date) ==
  InsertEach(ach, {<<StreakType(threshold), NULL, date>> :
                     threshold \in {t \in Thresholds :
                        \A i \in 0..(t - 1) :
                           DayAllCompleted(hs, compl, shiftDateStr(date, -i))}})

\* The month checked: the one before date's month.
CheckYear(date) == IF date[2] = 1 THEN date[1] - 1 ELSE date[1]

\* Variant: the month of date itself outside January.
CheckMonthCurrent(date) == IF date[2] = 1 THEN 12 ELSE date[2]

CheckMonth(date) == IF date[2] = 1 THEN 12 ELSE date[2] - 1

\* Variant: without the created_date > firstOfMonth test.
AwardHabitMonthsAnyCreation(hs, compl, ach, habitIds, date) ==
  LET checkYear == CheckYear(date)
      checkMonth == CheckMonth(date)
      days == daysInMonth(checkYear, checkMonth)
  IN InsertEach(ach, {<<"perfect_month", id, <<checkYear, checkMonth, 1>>>> :
                        id \in {x \in habitIds :
                           \A d \in 1..days :
                             checkCompletion(compl, <<checkYear, checkMonth, d>>, x)}})

AwardHabitMonths(hs, compl, ach, habitIds, date) ==
  LET checkYear == CheckYear(date)
      checkMonth == CheckMonth(date)
      days == daysInMonth(checkYear, checkMonth)
      firstOfMonth == <<checkYear, checkMonth, 1>>
  IN InsertEach(ach, {<<"perfect_month", id, firstOfMonth>> :
                        id \in {x \in habitIds :
                           /\ ~DateLT(firstOfMonth, hs[x].created_date)
                           /\ \A d \in 1..days :
                                checkCompletion(compl, <<checkYear, checkMonth, d>>, x)}})

AwardGlobalMonth(hs, compl, ach, date) ==
  LET checkYear == CheckYear(date)
      checkMonth == CheckMonth(date)
      days == daysInMonth(checkYear, checkMonth)
  IN IF \A d \in 1..days : DayAllCompleted(hs, compl, <<checkYear, checkMonth, d>>)
       THEN insertAchievement(ach, "perfect_month", NULL, <<checkYear, checkMonth, 1>>)
       ELSE ach

\* Variant: without the early return on an empty habit list.
checkAchievementsNoReturn(hs, compl, ach, date) ==
  LET habitIds == ActiveHabits(hs, date)
      a1 == AwardPerfectDay(compl, ach, habitIds, date)
      a2 == AwardHabitStreaks(compl, a1, habitIds, date)
      a3 == AwardGlobalStreaks(hs, compl, a2, date)
      a4 == AwardHabitMonths(hs, compl, a3, habitIds, date)
  IN AwardGlobalMonth(hs, compl, a4, date)

checkAchievements(hs, compl, ach, date) ==
  LET habitIds == ActiveHabits(hs, date) IN
  IF habitIds = {} THEN ach
  ELSE LET a1 == AwardPerfectDay(compl, ach, habitIds, date)
           a2 == AwardHabitStreaks(compl, a1, habitIds, date)
           a3 == AwardGlobalStreaks(hs, compl, a2, date)
           a4 == AwardHabitMonths(hs, compl, a3, habitIds, date)
       IN AwardGlobalMonth(hs, compl, a4, date)

(***************************************************************************)
(* Completions and habits.                                                 *)
(***************************************************************************)
\* Variant: the DELETE without its habit_id condition.
toggleCompletionWholeDay(compl, date, habitId, completed) ==
  IF completed THEN compl \cup {<<date, habitId>>}
  ELSE {c \in compl : c[1] # date}

\* INSERT OR IGNORE INTO completions / DELETE FROM completions
toggleCompletion(compl, date, habitId, completed) ==
  IF completed THEN compl \cup {<<date, habitId>>} ELSE compl \ {<<date, habitId>>}

MaxOrder(hs) ==
  IF DOMAIN hs = {} THEN -1
  ELSE CHOOSE m \in {hs[i].sort_order : i \in DOMAIN hs} :
         \A i \in DOMAIN hs : hs[i].sort_order <= m

Habit(name, created, deleted, deletedDate, order) ==
  [name |-> name, created_date |-> created, deleted |-> deleted,
   deleted_date |-> deletedDate, sort_order |-> order]

addHabit(hs, id, name, now) == hs @@ (id :> Habit(name, now, FALSE, NULL, MaxOrder(hs) + 1))

\* Variant: the flag set without the date.
deleteHabitFlagOnly(hs, id, now) == [hs EXCEPT ![id].deleted = TRUE]

deleteHabit(hs, id, now) == [hs EXCEPT ![id].deleted = TRUE, ![id].deleted_date = now]

renameHabit(hs, id, name) == [hs EXCEPT ![id].name = name]

\* ids.forEach((id, i) => update.run(i, id)): the habits of ids take the
\* index of their place in ids, the other habits keep their sort_order.
reorderHabits(hs, ids) ==
  [h \in DOMAIN hs |->
     IF \E i \in DOMAIN ids : ids[i] = h
       THEN [hs[h] EXCEPT !.sort_order =
               (CHOOSE i \in DOMAIN ids :
                  ids[i] = h /\ \A j \in DOMAIN ids : ids[j] = h => j <= i) - 1]
       ELSE hs[h]]


(***************************************************************************)
(* Views: the day view and the streak list.                                *)
(***************************************************************************)
\* Variant: a deleted habit stays visible on its deletion day.
VisibleHabitsThroughDeletionDay(hs, date) ==
  {h \in DOMAIN hs : ~(hs[h].deleted /\ DateLT(hs[h].deleted_date, date))}

\* Variant: with the created_date <= date condition of the award pass.
VisibleHabitsSinceCreation(hs, date) ==
  {h \in DOMAIN hs :
     /\ DateLE(hs[h].created_date, date)
     /\ ~(hs[h].deleted /\ DateLE(hs[h].deleted_date, date))}

\* WHERE NOT (deleted = 1 AND deleted_date <= ?)
VisibleHabits(hs, date) ==
  {h \in DOMAIN hs : ~(hs[h].deleted /\ DateLE(hs[h].deleted_date, date))}

\* ORDER BY sort_order: the orders the query may return the ids in, habits
\* of equal sort_order in either order.
SortOrders(hs, ids) ==
  {s \in [1..Cardinality(ids) -> ids] :
     \A i, j \in 1..Cardinality(ids) :
       i < j => (s[i] # s[j] /\ hs[s[i]].sort_order <= hs[s[j]].sort_order)}

\* rows: the visible habits in the order the query returned them.
getDayView(hs, compl, date, rows) ==
  [i \in DOMAIN rows |->
     [id |-> rows[i],
      name |-> hs[rows[i]].name,
      completed |-> checkCompletion(compl, date, rows[i]),
      deleted |-> hs[rows[i]].deleted]]

\* Variant: without the start from yesterday for today.
StreakForNoShift(compl, id, date, isToday) ==
  IF checkCompletion(compl, date, id) THEN StreakWalk(compl, id, date) ELSE 0

\* Variant: the walk starts the day before a completed viewing date.
StreakForSkipDate(compl, id, date, isToday) ==
  IF checkCompletion(compl, date, id) \/ isToday
    THEN StreakWalk(compl, id, shiftDateStr(date, -1))
    ELSE 0

\* The streak of one habit of the loop: 0 stands for `continue`.
StreakFor(compl, id, date, isToday) ==
  IF checkCompletion(compl, date, id)
    THEN StreakWalk(compl, id, date)
    ELSE IF isToday
      THEN StreakWalk(compl, id, shiftDateStr(date, -1))
      ELSE 0

\* Variant: ascending streaks.
SortByStreakAscending(results) ==
  LET n == Cardinality(DOMAIN results)
      perm == CHOOSE p \in [1..n -> 1..n] :
                \A i, j \in 1..n : i < j =>
                  \/ results[p[i]].streak < results[p[j]].streak
                  \/ (results[p[i]].streak = results[p[j]].streak /\ p[i] < p[j])
  IN [i \in 1..n |-> results[perm[i]]]

\* results.sort((a, b) => b.streak - a.streak): Array.prototype.sort is
\* stable, entries of equal streak keep their order.
SortByStreak(results) ==
  LET n == Cardinality(DOMAIN results)
      perm == CHOOSE p \in [1..n -> 1..n] :
                \A i, j \in 1..n : i < j =>
                  \/ results[p[i]].streak > results[p[j]].streak
                  \/ (results[p[i]].streak = results[p[j]].streak /\ p[i] < p[j])
  IN [i \in 1..n |-> results[perm[i]]]

\* visible: the visible habits in the order the query returned them.
getStreaks(hs, compl, now, date, visible) ==
  LET isToday == date = now
      pushed == {i \in DOMAIN visible : StreakFor(compl, visible[i], date, isToday) > 0}
      at == CHOOSE f \in [1..Cardinality(pushed) -> pushed] :
              \A i, j \in 1..Cardinality(pushed) : i < j => f[i] < f[j]
      results == [i \in 1..Cardinality(pushed) |->
                    [id |-> visible[at[i]],
                     name |-> hs[visible[at[i]]].name,
                     streak |-> StreakFor(compl, visible[at[i]], date, isToday)]]
  IN SortByStreak(results)

(***************************************************************************)
(* The achievement summary.                                                *)
(***************************************************************************)
GlobalTypes == <<"perfect_day", "streak_7", "streak_14", "streak_21", "perfect_month">>

PerHabitTypes == <<"streak_7", "streak_14", "streak_21", "perfect_month">>

\* Variant: MIN(earned_date) for MAX(earned_date).
SummaryOfEarliest(rows, type) ==
  IF rows = {} THEN [type |-> type, count |-> 0, latestDate |-> NULL]
  ELSE [type |-> type,
        count |-> Cardinality(rows),
        latestDate |-> CHOOSE d \in {r.earned_date : r \in rows} :
                         \A r \in rows : DateLE(d, r.earned_date)]

\* COUNT(*) and MAX(earned_date) of a group; { count: 0, latestDate: null }
\* for a type without rows.
SummaryOf(rows, type) ==
  IF rows = {} THEN [type |-> type, count |-> 0, latestDate |-> NULL]
  ELSE [type |-> type,
        count |-> Cardinality(rows),
        latestDate |-> CHOOSE d \in {r.earned_date : r \in rows} :
                         \A r \in rows : DateLE(r.earned_date, d)]

getAchievements(hs, ach) ==
  [global |->
     [i \in DOMAIN GlobalTypes |->
        SummaryOf({r \in ach : r.habit_id = NULL /\ r.type = GlobalTypes[i]},
                  GlobalTypes[i])],
   perHabit |->
     [h \in {x \in DOMAIN hs : ~hs[x].deleted} |->
        [name |-> hs[h].name,
         achievements |->
           [i \in DOMAIN PerHabitTypes |->
              SummaryOf({r \in ach : r.habit_id = h /\ r.type = PerHabitTypes[i]},
                        PerHabitTypes[i])]]]]

(***************************************************************************)
(* Initial states: stores the program reaches by adding (or migrating)     *)
(* habits, toggling completions and running the award pass.                 *)
(***************************************************************************)
Today0 == <<2024, 1, 21>>

\* The days from .. to, both included.
DaysBetween(from, to) ==
  {d \in (from[1]..to[1]) \X (1..12) \X (1..31) :
     d[3] <= daysInMonth(d[1], d[2]) /\ DateLE(from, d) /\ DateLE(d, to)}

\* Consecutive completion runs a habit may start with.
InitRuns ==
  { {},
    DaysBetween(<<2023, 12, 1>>, <<2023, 12, 31>>),
    DaysBetween(<<2023, 12, 1>>, <<2024, 1, 21>>),
    DaysBetween(<<2024, 1, 1>>, <<2024, 1, 7>>),
    DaysBetween(<<2024, 1, 1>>, <<2024, 1, 21>>) }

HabitA(created) == "A" :> Habit("read", created, FALSE, NULL, 0)

HabitB(created, deleted) ==
  "B" :> Habit("run", created, deleted, IF deleted THEN <<2024, 1, 5>> ELSE NULL, 1)

InitHabits ==
  {HabitA(<<2023, 11, 30>>),
   HabitA(<<2023, 11, 30>>) @@ HabitB(<<2023, 12, 5>>, FALSE),
   HabitA(<<2023, 11, 30>>) @@ HabitB(<<2023, 12, 5>>, TRUE),
   HabitA(<<2024, 1, 1>>) @@ HabitB(<<2024, 1, 1>>, FALSE)}

\* The award pass run for every seed date, in date order.
CheckSeeds(hs, compl, ach) ==
  checkAchievements(hs, compl,
    checkAchievements(hs, compl,
      checkAchievements(hs, compl, ach, <<2023, 12, 31>>),
      <<2024, 1, 7>>),
    <<2024, 1, 21>>)

NoOp == [op |-> "init", date |-> Today0, habitId |-> NULL, completed |-> FALSE]

Snapshot(hs, compl, ach) == [habits |-> hs, completions |-> compl, achievements |-> ach]

\* No transaction is open.
NoTx == [pc |-> 0]

Init ==
  /\ habits \in InitHabits
  /\ \E run \in [DOMAIN habits -> InitRuns] :
       completions = UNION {{<<d, id>> : d \in run[id]} : id \in DOMAIN habits}
  /\ achievements \in {{}, CheckSeeds(habits, completions, {})}
  /\ today = Today0
  /\ last = NoOp
  /\ pre = Snapshot(habits, completions, achievements)
  /\ steps = 0
  /\ tx = NoTx

(***************************************************************************)
(* Operations of the data layer.                                           *)
(***************************************************************************)
ToggleDates == {<<2023, 12, 31>>, <<2024, 1, 3>>, <<2024, 1, 7>>}

CheckDates == {<<2023, 12, 31>>, <<2024, 1, 5>>, <<2024, 1, 7>>, <<2024, 1, 21>>, <<2024, 2, 1>>}

Names == {"swim"}

\* What every operation leaves in the history variables.
Record(op, date, habitId, completed) ==
  /\ last' = [op |-> op, date |-> date, habitId |-> habitId, completed |-> completed]
  /\ pre' = Snapshot(habits, completions, achievements)
  /\ steps' = steps + 1
  /\ tx' = tx

ToggleCompletion ==
  /\ steps < MaxSteps
  /\ \E date \in ToggleDates, habitId \in DOMAIN habits, completed \in BOOLEAN :
       /\ completions' = toggleCompletion(completions, date, habitId, completed)
       /\ Record("toggleCompletion", date, habitId, completed)
  /\ UNCHANGED <<habits, achievements, today>>

CheckAchievements ==
  /\ steps < MaxSteps
  /\ \E date \in CheckDates :
       /\ achievements' = checkAchievements(habits, completions, achievements, date)
       /\ Record("checkAchievements", date, NULL, FALSE)
  /\ UNCHANGED <<habits, completions, today>>

\* Variant: the pass deletes the completion record of (date, habitId) too.
RemoveInvalidAchievementsAndRecord ==
  /\ steps < MaxSteps
  /\ \E date \in ToggleDates, habitId \in DOMAIN habits :
       /\ achievements' = removeInvalidAchievements(achievements, date, habitId)
       /\ completions' = toggleCompletion(completions, date, habitId, FALSE)
       /\ Record("removeInvalidAchievements", date, habitId, FALSE)
  /\ UNCHANGED <<habits, today>>

RemoveInvalidAchievements ==
  /\ steps < MaxSteps
  /\ \E date \in ToggleDates, habitId \in DOMAIN habits :
       /\ achievements' = removeInvalidAchievements(achievements, date, habitId)
       /\ Record("removeInvalidAchievements", date, habitId, FALSE)
  /\ UNCHANGED <<habits, completions, today>>

AddHabit ==
  /\ steps < MaxSteps
  /\ \E id \in HabitIds \ DOMAIN habits, name \in Names :
       /\ habits' = addHabit(habits, id, name, today)
       /\ Record("addHabit", today, id, FALSE)
  /\ UNCHANGED <<completions, achievements, today>>

\* Variant: the rows of the habit are deleted with it.
DeleteHabitAndRows ==
  /\ steps < MaxSteps
  /\ \E id \in DOMAIN habits :
       /\ habits' = deleteHabit(habits, id, today)
       /\ achievements' = {r \in achievements : r.habit_id # id}
       /\ Record("deleteHabit", today, id, FALSE)
  /\ UNCHANGED <<completions, today>>

DeleteHabit ==
  /\ steps < MaxSteps
  /\ \E id \in DOMAIN habits :
       /\ habits' = deleteHabit(habits, id, today)
       /\ Record("deleteHabit", today, id, FALSE)
  /\ UNCHANGED <<completions, achievements, today>>

\* The wall clock passes midnight.
Tick ==
  /\ steps < MaxSteps
  /\ today' = shiftDateStr(today, 1)
  /\ Record("tick", today, NULL, FALSE)
  /\ UNCHANGED <<habits, completions, achievements>>

Next ==
  \/ ToggleCompletion
  \/ CheckAchievements
  \/ RemoveInvalidAchievements
  \/ AddHabit
  \/ DeleteHabit
  \/ Tick

Spec == Init /\ [][Next]_vars


(***************************************************************************)
(* The toggle wiring of the design: a completion set on (date, habitId)    *)
(* is followed by the award pass for date, a completion cleared by the     *)
(* invalidation pass for (date, habitId), as one unit.                     *)
(***************************************************************************)
ToggleOn ==
  /\ steps < MaxSteps
  /\ \E date \in ToggleDates, habitId \in DOMAIN habits :
       /\ completions' = toggleCompletion(completions, date, habitId, TRUE)
       /\ achievements' = checkAchievements(habits, completions', achievements, date)
       /\ Record("toggleOn", date, habitId, TRUE)
  /\ UNCHANGED <<habits, today>>

ToggleOff ==
  /\ steps < MaxSteps
  /\ \E date \in ToggleDates, habitId \in DOMAIN habits :
       /\ completions' = toggleCompletion(completions, date, habitId, FALSE)
       /\ achievements' = removeInvalidAchievements(achievements, date, habitId)
       /\ Record("toggleOff", date, habitId, FALSE)
  /\ UNCHANGED <<habits, today>>

NextWired ==
  \/ ToggleOn
  \/ ToggleOff
  \/ AddHabit
  \/ DeleteHabit
  \/ Tick

SpecWired == Init /\ [][NextWired]_vars

(***************************************************************************)
(* The read operations, called between the writes of the data layer.       *)
(***************************************************************************)
ViewDates ==
  {<<2023, 12, 31>>, <<2024, 1, 4>>, <<2024, 1, 5>>, <<2024, 1, 10>>, <<2024, 1, 21>>}

\* What a read operation leaves in the history variables: its result too.
Answer(op, date, result) ==
  /\ last' = [op |-> op, date |-> date, habitId |-> NULL, completed |-> FALSE,
              result |-> result]
  /\ pre' = Snapshot(habits, completions, achievements)
  /\ steps' = steps + 1
  /\ tx' = tx

GetStreaks ==
  /\ steps < MaxSteps
  /\ \E date \in ViewDates \cup {today} :
       \E visible \in SortOrders(habits, VisibleHabits(habits, date)) :
         Answer("getStreaks", date, getStreaks(habits, completions, today, date, visible))
  /\ UNCHANGED <<habits, completions, achievements, today>>

GetDayView ==
  /\ steps < MaxSteps
  /\ \E date \in ViewDates \cup {today} :
       \E rows \in SortOrders(habits, VisibleHabits(habits, date)) :
         Answer("getDayView", date, getDayView(habits, completions, date, rows))
  /\ UNCHANGED <<habits, completions, achievements, today>>

NextViews ==
  \/ ToggleCompletion
  \/ AddHabit
  \/ DeleteHabit
  \/ Tick
  \/ GetStreaks
  \/ GetDayView

SpecViews == Init /\ [][NextViews]_vars

(***************************************************************************)
(* The two passes statement by statement.  Each is the body of a           *)
(* db.transaction: BEGIN, the statements, COMMIT; the statements write to  *)
(* the open transaction, the table of the database file changes at COMMIT, *)
(* and a statement that throws, or a process that stops, leaves the open   *)
(* transaction to be rolled back.                                          *)
(***************************************************************************)
\* The groups of statements of a pass: five in both.
Stages == 5

\* The award pass, one group of inserts at a time.
AwardStage(hs, compl, work, date, pc) ==
  LET habitIds == ActiveHabits(hs, date)
  IN CASE pc = 1 -> AwardPerfectDay(compl, work, habitIds, date)
       [] pc = 2 -> AwardHabitStreaks(compl, work, habitIds, date)
       [] pc = 3 -> AwardGlobalStreaks(hs, compl, work, date)
       [] pc = 4 -> AwardHabitMonths(hs, compl, work, habitIds, date)
       [] pc = 5 -> AwardGlobalMonth(hs, compl, work, date)

\* The invalidation pass, one group of deletes at a time.
RemoveStage(work, date, habitId, pc) ==
  DeleteRows(work, {r \in work :
    CASE pc = 1 -> r.type = "perfect_day" /\ r.habit_id = NULL /\ r.earned_date = date
      [] pc = 2 -> r.habit_id = habitId /\ \E n \in Thresholds : InStreakWindow(r, date, n)
      [] pc = 3 -> r.habit_id = NULL /\ \E n \in Thresholds : InStreakWindow(r, date, n)
      [] pc = 4 -> r.type = "perfect_month" /\ r.habit_id = habitId
                     /\ r.earned_date = MonthStart(date)
      [] pc = 5 -> r.type = "perfect_month" /\ r.habit_id = NULL
                     /\ r.earned_date = MonthStart(date)})

\* Variant: every statement commits by itself.
TableWithoutTransaction(table, work) == work

\* The table of the database file while a transaction is open: the writes
\* of the transaction are not in it.
TableDuringTransaction(table, work) == table

\* Variant: the exception leaves the writes made so far in the table.
TableAfterPartialWrites(table, work) == work

\* The table after a statement of a transaction has thrown: rolled back.
TableAfterRollback(table, work) == table

\* What a step of a transaction leaves in the history variables.
TxRecord(op, work) ==
  /\ last' = [op |-> op, date |-> tx.date, habitId |-> tx.habitId, completed |-> FALSE,
              call |-> tx.op, pc |-> tx.pc, work |-> work]
  /\ UNCHANGED <<pre, steps>>

BeginCheckAchievements ==
  /\ steps < MaxTx
  /\ tx.pc = 0
  /\ \E date \in CheckDates :
       /\ tx' = [pc |-> IF ActiveHabits(habits, date) = {} THEN Stages + 1 ELSE 1,
                 op |-> "checkAchievements", date |-> date, habitId |-> NULL,
                 work |-> achievements]
       /\ last' = [op |-> "begin", date |-> date, habitId |-> NULL, completed |-> FALSE]
  /\ pre' = Snapshot(habits, completions, achievements)
  /\ steps' = steps + 1
  /\ UNCHANGED <<habits, completions, achievements, today>>

BeginRemoveInvalidAchievements ==
  /\ steps < MaxTx
  /\ tx.pc = 0
  /\ \E date \in ToggleDates, habitId \in DOMAIN habits :
       /\ tx' = [pc |-> 1, op |-> "removeInvalidAchievements", date |-> date,
                 habitId |-> habitId, work |-> achievements]
       /\ last' = [op |-> "begin", date |-> date, habitId |-> habitId, completed |-> FALSE]
  /\ pre' = Snapshot(habits, completions, achievements)
  /\ steps' = steps + 1
  /\ UNCHANGED <<habits, completions, achievements, today>>

\* The next group of statements runs.
TxStep ==
  /\ tx.pc \in 1..Stages
  /\ LET work == IF tx.op = "checkAchievements"
                   THEN AwardStage(habits, completions, tx.work, tx.date, tx.pc)
                   ELSE RemoveStage(tx.work, tx.date, tx.habitId, tx.pc)
     IN /\ tx' = [tx EXCEPT !.pc = @ + 1, !.work = work]
        /\ achievements' = TableDuringTransaction(achievements, work)
        /\ TxRecord("step", work)
  /\ UNCHANGED <<habits, completions, today>>

\* The function has returned: COMMIT.
TxCommit ==
  /\ tx.pc = Stages + 1
  /\ achievements' = tx.work
  /\ tx' = NoTx
  /\ TxRecord(tx.op, tx.work)
  /\ UNCHANGED <<habits, completions, today>>

\* The process stops with the transaction open.
TxInterrupt ==
  /\ tx.pc \in 1..(Stages + 1)
  /\ tx' = NoTx
  /\ TxRecord("interrupted", tx.work)
  /\ UNCHANGED <<habits, completions, achievements, today>>

\* The next statement throws: the exception leaves the function.
TxFail ==
  /\ tx.pc \in 1..Stages
  /\ achievements' = TableAfterRollback(achievements, tx.work)
  /\ tx' = NoTx
  /\ TxRecord("storageFailure", tx.work)
  /\ UNCHANGED <<habits, completions, today>>

NextTx ==
  \/ BeginCheckAchievements
  \/ BeginRemoveInvalidAchievements
  \/ TxStep
  \/ TxCommit
  \/ TxInterrupt
  \/ TxFail

SpecTx == Init /\ [][NextTx]_vars

(***************************************************************************)
(* The habit operations by themselves.                                     *)
(***************************************************************************)
\* The lists of distinct ids of hs a reorder request may carry.
OrderLists(hs) ==
  {ids \in UNION {[1..n -> DOMAIN hs] : n \in 1..Cardinality(DOMAIN hs)} :
     \A i, j \in DOMAIN ids : i # j => ids[i] # ids[j]}

NewNames == {"walk"}

RenameHabit ==
  /\ steps < MaxSteps
  /\ \E id \in DOMAIN habits, name \in NewNames :
       /\ habits' = renameHabit(habits, id, name)
       /\ Record("renameHabit", today, id, FALSE)
  /\ UNCHANGED <<completions, achievements, today>>

ReorderHabits ==
  /\ steps < MaxSteps
  /\ \E ids \in OrderLists(habits) :
       /\ habits' = reorderHabits(habits, ids)
       /\ Record("reorderHabits", today, NULL, FALSE)
  /\ UNCHANGED <<completions, achievements, today>>

NextHabits ==
  \/ AddHabit
  \/ RenameHabit
  \/ DeleteHabit
  \/ ReorderHabits
  \/ Tick

SpecHabits == Init /\ [][NextHabits]_vars

(***************************************************************************)
(* The achievement and streak operations by themselves.                    *)
(***************************************************************************)
GetAchievements ==
  /\ steps < MaxSteps
  /\ Answer("getAchievements", today, getAchievements(habits, achievements))
  /\ UNCHANGED <<habits, completions, achievements, today>>

NextEngine ==
  \/ CheckAchievements
  \/ RemoveInvalidAchievements
  \/ GetStreaks
  \/ GetDayView
  \/ GetAchievements

SpecEngine == Init /\ [][NextEngine]_vars

(***************************************************************************)
(* The habit, completion, achievement and streak operations of the data   *)
(* layer, called in any order.                                             *)
(***************************************************************************)
NextAll ==
  \/ AddHabit
  \/ RenameHabit
  \/ DeleteHabit
  \/ ReorderHabits
  \/ ToggleCompletion
  \/ CheckAchievements
  \/ RemoveInvalidAchievements
  \/ GetStreaks
  \/ GetAchievements

SpecAll == Init /\ [][NextAll]_vars

(***************************************************************************)
(* The calendar of the properties: day ordinals from explicit month        *)
(* tables, independent of the date arithmetic of the code.                 *)
(***************************************************************************)
DaysBeforeMonth(y) ==
  IF y = 2024 THEN <<0, 31, 60, 91, 121, 152, 182, 213, 244, 274, 305, 335>>
  ELSE <<0, 31, 59, 90, 120, 151, 181, 212, 243, 273, 304, 334>>

MonthLength(y) ==
  IF y = 2024 THEN <<31, 29, 31, 30, 31, 30, 31, 31, 30, 31, 30, 31>>
  ELSE <<31, 28, 31, 30, 31, 30, 31, 31, 30, 31, 30, 31>>

\* Days since 2022-12-31, for a day of 2023 or 2024.
Ord(d) == (IF d[1] = 2024 THEN 365 ELSE 0) + DaysBeforeMonth(d[1])[d[2]] + d[3]

CalendarDays ==
  {d \in {2023, 2024} \X (1..12) \X (1..31) : d[3] <= MonthLength(d[1])[d[2]]}

DateOf == [n \in 1..731 |-> CHOOSE d \in CalendarDays : Ord(d) = n]

StreakTypes == {"streak_7", "streak_14", "streak_21"}

Length(type) == IF type = "streak_7" THEN 7 ELSE IF type = "streak_14" THEN 14 ELSE 21

\* Number of rows (type, hid, date) in a table.
Count(ach, type, hid, date) ==
  Cardinality({r \in ach : r.type = type /\ r.habit_id = hid /\ r.earned_date = date})

\* Habit hid has a completion record on each of the n days ending at date.
RunOf(compl, hid, date, n) ==
  \A i \in 0..(n - 1) : <<DateOf[Ord(date) - i], hid>> \in compl

\* The habits of hs active for achievements on date.
ActiveSet(hs, date) ==
  {h \in DOMAIN hs :
     /\ Ord(hs[h].created_date) <= Ord(date)
     /\ (hs[h].deleted => Ord(hs[h].deleted_date) > Ord(date))}

\* A non-empty active set, every habit of it completed on date.
PerfectDay(hs, compl, date) ==
  /\ ActiveSet(hs, date) # {}
  /\ \A h \in ActiveSet(hs, date) : <<date, h>> \in compl

\* The first day of the month before date's month.
PrevMonthStart(date) ==
  IF date[2] = 1 THEN <<date[1] - 1, 12, 1>> ELSE <<date[1], date[2] - 1, 1>>

\* The days of the month that starts on first.
MonthDays(first) == {d \in CalendarDays : d[1] = first[1] /\ d[2] = first[2]}

Inserted == achievements \ pre.achievements

Removed == pre.achievements \ achievements


(***************************************************************************)
(* Properties.                                                             *)
(***************************************************************************)
InWindow(r, date) ==
  /\ Ord(date) <= Ord(r.earned_date)
  /\ Ord(r.earned_date) <= Ord(date) + Length(r.type) - 1

\* C1: the award pass run a second time for the same date leaves the table
\* as the first run left it, and the table holds no two rows equal in
\* (type, habit_id, earned_date), global rows included.
C1_IdempotentAward ==
  last.op = "checkAchievements" =>
    /\ checkAchievements(habits, completions, achievements, last.date) = achievements
    /\ \A r \in achievements : r.copy = 1

\* C2: with every toggle-on followed by the award pass and every toggle-off
\* by the invalidation pass, each per-habit streak_N row (H, E) has
\* completion records for H on the N days ending at E, and each per-habit
\* perfect_month row has them on every day of its month.
C2_NoStalePerHabit ==
  \A r \in achievements : r.habit_id # NULL =>
    /\ r.type \in StreakTypes =>
         RunOf(completions, r.habit_id, r.earned_date, Length(r.type))
    /\ r.type = "perfect_month" =>
         \A d \in MonthDays(r.earned_date) : <<d, r.habit_id>> \in completions

\* A toggle-off has removed the habit's streak_21 row and left its streak_14
\* row of the same day, the cleared day lying outside the 14-day window.
C2_Witness ==
  /\ last.op = "toggleOff"
  /\ <<last.date, last.habitId>> \in pre.completions
  /\ \E r \in Removed, k \in achievements :
       /\ r.habit_id = last.habitId /\ r.type = "streak_21"
       /\ k.habit_id = last.habitId /\ k.type = "streak_14"
       /\ k.earned_date = r.earned_date

\* C3: the invalidation pass for (date, habitId) removes every streak_N row
\* of habitId and every global streak_N row earned in date .. date + (N-1),
\* and no streak_N row earned before date or after date + (N-1).
C3_InvalidationWindow ==
  last.op = "removeInvalidAchievements" =>
    \A r \in pre.achievements : r.type \in StreakTypes =>
      /\ (InWindow(r, last.date) /\ r.habit_id \in {last.habitId, NULL}) => r \notin achievements
      /\ ~InWindow(r, last.date) => r \in achievements

\* The pass has removed a row of the habit and a global row, and has kept
\* rows of the habit of the same type earned before and after the window.
C3_Witness ==
  /\ last.op = "removeInvalidAchievements"
  /\ \E r \in Removed, g \in Removed, b \in achievements, a \in achievements :
       /\ r.habit_id = last.habitId /\ r.type \in StreakTypes
       /\ g.habit_id = NULL /\ g.type = r.type
       /\ b.habit_id = last.habitId /\ b.type = r.type
       /\ Ord(b.earned_date) < Ord(last.date)
       /\ a.habit_id = last.habitId /\ a.type = r.type
       /\ Ord(a.earned_date) > Ord(last.date) + Length(r.type) - 1

\* C4: once the invalidation pass has run for (D, H), H has no streak_N row
\* earned in D .. D + (N-1); and the award pass inserts a streak_N row for H
\* at E only when H has a completion record on each of the N days ending at
\* E, so not while a day D of that window stays un-completed.
C4_LeftInverse ==
  /\ last.op = "removeInvalidAchievements" =>
       \A r \in achievements :
         (r.habit_id = last.habitId /\ r.type \in StreakTypes) => ~InWindow(r, last.date)
  /\ last.op = "checkAchievements" =>
       \A r \in Inserted : (r.habit_id # NULL /\ r.type \in StreakTypes) =>
         \A d \in CalendarDays :
           InWindow(r, d) => <<d, r.habit_id>> \in completions

\* The award pass has run at E for an active habit whose only missing day of
\* the seven ending at E is an earlier day D, and it has no streak_7 row at E.
C4_Witness ==
  /\ last.op = "checkAchievements"
  /\ \E h \in ActiveSet(habits, last.date), i \in 1..6 :
       /\ <<DateOf[Ord(last.date) - i], h>> \notin completions
       /\ \A j \in (0..6) \ {i} : <<DateOf[Ord(last.date) - j], h>> \in completions
       /\ Count(achievements, "streak_7", h, last.date) = 0

\* C5: the invalidation pass for (date, habitId) leaves in place every row
\* of another habit, every global perfect_day row earned on another day and
\* every perfect_month row not keyed by the first day of date's month.
C5_InvalidationFrame ==
  last.op = "removeInvalidAchievements" =>
    \A r \in pre.achievements :
      (\/ r.habit_id \notin {NULL, last.habitId}
       \/ (r.type = "perfect_day" /\ r.habit_id = NULL /\ r.earned_date # last.date)
       \/ (r.type = "perfect_month" /\ r.earned_date # <<last.date[1], last.date[2], 1>>))
      => r \in achievements

\* The scenario: after the pass for (2024-01-03, A), perfect_day and B's
\* streak_7 of 2024-01-07 remain; A's and the global streak_7 are removed.
C5_Witness ==
  /\ last.op = "removeInvalidAchievements"
  /\ last.date = <<2024, 1, 3>> /\ last.habitId = "A"
  /\ Count(pre.achievements, "streak_7", "A", <<2024, 1, 7>>) = 1
  /\ Count(pre.achievements, "streak_7", NULL, <<2024, 1, 7>>) >= 1
  /\ Count(achievements, "streak_7", "A", <<2024, 1, 7>>) = 0
  /\ Count(achievements, "streak_7", NULL, <<2024, 1, 7>>) = 0
  /\ Count(achievements, "streak_7", "B", <<2024, 1, 7>>) = 1
  /\ Count(achievements, "perfect_day", NULL, <<2024, 1, 7>>) >= 1

\* C6: when no habit is active for achievements on date, the award pass
\* inserts no perfect_day row and no global streak_N row for date.
C6_VacuousNonAward ==
  (last.op = "checkAchievements" /\ ActiveSet(habits, last.date) = {}) =>
    \A r \in Inserted :
      ~(/\ r.habit_id = NULL
        /\ r.earned_date = last.date
        /\ r.type \in {"perfect_day"} \cup StreakTypes)

\* The pass has run for a day on which no habit is active although every
\* habit of the store has a completion record for it.
C6_Witness ==
  /\ last.op = "checkAchievements"
  /\ ActiveSet(habits, last.date) = {}
  /\ \A h \in DOMAIN habits : <<last.date, h>> \in completions
  /\ Cardinality(DOMAIN habits) = 2

\* C7: the award pass inserts the global perfect_day row at date if and only
\* if the habits active on date are at least one and each has a completion
\* record for date; habits created after date, or deleted on or before it,
\* do not count.
C7_PerfectDay ==
  last.op = "checkAchievements" =>
    Count(achievements, "perfect_day", NULL, last.date)
      = Count(pre.achievements, "perfect_day", NULL, last.date)
          + (IF PerfectDay(habits, completions, last.date) THEN 1 ELSE 0)

\* perfect_day has been inserted although a habit that is not active on the
\* day has no completion record for it.
C7_Witness ==
  /\ last.op = "checkAchievements"
  /\ Count(achievements, "perfect_day", NULL, last.date)
       > Count(pre.achievements, "perfect_day", NULL, last.date)
  /\ \E h \in DOMAIN habits \ ActiveSet(habits, last.date) :
       <<last.date, h>> \notin completions

\* C8: for each habit active on date and each N in {7, 14, 21}, the award
\* pass inserts the habit's streak_N row at date exactly when the habit has
\* completion records on the N days ending at date (the row is left alone
\* when it exists already).
C8_HabitStreaks ==
  last.op = "checkAchievements" =>
    \A h \in ActiveSet(habits, last.date), t \in StreakTypes :
      Count(achievements, t, h, last.date) =
        IF Count(pre.achievements, t, h, last.date) > 0
          THEN Count(pre.achievements, t, h, last.date)
          ELSE IF RunOf(completions, h, last.date, Length(t)) THEN 1 ELSE 0

\* One habit, with a run of 21 or more, has received all three rows; another,
\* with a run of 7 to 13, has received streak_7 alone.
C8_Witness ==
  /\ last.op = "checkAchievements"
  /\ \E h \in ActiveSet(habits, last.date), g \in ActiveSet(habits, last.date) :
       /\ \A t \in StreakTypes :
            \E r \in Inserted : r.type = t /\ r.habit_id = h /\ r.earned_date = last.date
       /\ \E r \in Inserted : r.type = "streak_7" /\ r.habit_id = g /\ r.earned_date = last.date
       /\ Count(achievements, "streak_14", g, last.date) = 0

\* C9: for each N in {7, 14, 21}, the award pass inserts the global streak_N
\* row at date if and only if each of the N days ending at date has at least
\* one active habit and a completion record for every active habit.
C9_GlobalStreaks ==
  last.op = "checkAchievements" =>
    \A t \in StreakTypes :
      Count(achievements, t, NULL, last.date)
        = Count(pre.achievements, t, NULL, last.date)
            + (IF \A i \in 0..(Length(t) - 1) :
                    PerfectDay(habits, completions, DateOf[Ord(last.date) - i])
                 THEN 1 ELSE 0)

\* The global streak_7 has been inserted and the global streak_14 has not,
\* every habit having completion records on all 14 days: on some of them no
\* habit was active.
C9_Witness ==
  /\ last.op = "checkAchievements"
  /\ Count(achievements, "streak_7", NULL, last.date)
       > Count(pre.achievements, "streak_7", NULL, last.date)
  /\ Count(achievements, "streak_14", NULL, last.date) = 0
  /\ \A h \in DOMAIN habits : RunOf(completions, h, last.date, 14)

\* C10: the award pass inserts a per-habit perfect_month row only at the
\* first day of the month before date's month, only for a habit active on
\* date, created on or before that first day and completed on every day of
\* that month; no habit has a perfect_month row for a month that began
\* before its creation date.
C10_HabitPerfectMonth ==
  /\ last.op = "checkAchievements" =>
       \A r \in Inserted : (r.type = "perfect_month" /\ r.habit_id # NULL) =>
         /\ r.earned_date = PrevMonthStart(last.date)
         /\ r.habit_id \in ActiveSet(habits, last.date)
         /\ Ord(habits[r.habit_id].created_date) <= Ord(r.earned_date)
         /\ \A d \in MonthDays(r.earned_date) : <<d, r.habit_id>> \in completions
  /\ \A r \in achievements : (r.type = "perfect_month" /\ r.habit_id # NULL) =>
       Ord(habits[r.habit_id].created_date) <= Ord(r.earned_date)

\* A habit created on the 5th of the month checked, active on date and
\* completed on every day of that month, has no perfect_month row, while
\* another habit has just received one.
C10_Witness ==
  /\ last.op = "checkAchievements"
  /\ \E h \in ActiveSet(habits, last.date) :
       /\ habits[h].created_date = <<PrevMonthStart(last.date)[1], PrevMonthStart(last.date)[2], 5>>
       /\ \A d \in MonthDays(PrevMonthStart(last.date)) : <<d, h>> \in completions
       /\ Count(achievements, "perfect_month", h, PrevMonthStart(last.date)) = 0
  /\ \E r \in Inserted : r.type = "perfect_month" /\ r.habit_id # NULL

\* C11: whenever every day of the month before date's month had at least
\* one active habit and a completion record for every active habit, the
\* award pass for date inserts the global perfect_month row at that month's
\* first day, whichever habits are active on date itself.
C11_GlobalPerfectMonth ==
  (/\ last.op = "checkAchievements"
   /\ \A d \in MonthDays(PrevMonthStart(last.date)) : PerfectDay(habits, completions, d))
  => Count(achievements, "perfect_month", NULL, PrevMonthStart(last.date))
       > Count(pre.achievements, "perfect_month", NULL, PrevMonthStart(last.date))

\* C12: the award pass for date inserts perfect_month rows only at the first
\* day of the month before date's month (December of the year before when
\* date is in January), and every perfect_month row of the table is earned
\* on the first day of a month.
C12_PerfectMonthDating ==
  /\ last.op = "checkAchievements" =>
       \A r \in Inserted : r.type = "perfect_month" =>
         r.earned_date = PrevMonthStart(last.date)
  /\ \A r \in achievements : r.type = "perfect_month" =>
       /\ r.earned_date[3] = 1
       /\ r.earned_date[2] \in 1..12

\* A pass for a day of January has inserted a per-habit and a global
\* perfect_month row at the first of December of the year before.
C12_Witness ==
  /\ last.op = "checkAchievements"
  /\ last.date[2] = 1
  /\ \E r \in Inserted, g \in Inserted :
       /\ r.type = "perfect_month" /\ r.habit_id # NULL
       /\ g.type = "perfect_month" /\ g.habit_id = NULL
       /\ r.earned_date = <<last.date[1] - 1, 12, 1>>
       /\ g.earned_date = <<last.date[1] - 1, 12, 1>>

\* C13: every streak_N row the award pass records is earned on the day the
\* Nth consecutive completion of its run occurred: the day before the N days
\* ending at earned_date is not part of the run, so a run already longer
\* than N on date produces no streak_N row at date.
C13_EarnedWhenFirstSatisfied ==
  last.op = "checkAchievements" =>
    \A r \in Inserted : (r.type \in StreakTypes /\ r.habit_id # NULL) =>
      /\ RunOf(completions, r.habit_id, r.earned_date, Length(r.type))
      /\ ~RunOf(completions, r.habit_id, r.earned_date, Length(r.type) + 1)

\* C13 as the code has it: every per-habit streak_N row the award pass for
\* date records is earned on date, the habit having completion records on
\* the N days ending at date; the run may be longer than N, and a habit with
\* a run of more than N days on date receives streak_N at date.
C13_EarnedOnPassDate ==
  last.op = "checkAchievements" =>
    /\ \A r \in Inserted : (r.type \in StreakTypes /\ r.habit_id # NULL) =>
         /\ r.earned_date = last.date
         /\ RunOf(completions, r.habit_id, last.date, Length(r.type))
    /\ \A h \in ActiveSet(habits, last.date), t \in StreakTypes :
         RunOf(completions, h, last.date, Length(t) + 1) =>
           Count(achievements, t, h, last.date) = 1

\* The pass has inserted streak_7 for a habit whose run ending on date is
\* longer than 21 days.
C13_Witness ==
  /\ last.op = "checkAchievements"
  /\ \E r \in Inserted :
       /\ r.type = "streak_7" /\ r.habit_id # NULL
       /\ r.earned_date = last.date
       /\ RunOf(completions, r.habit_id, last.date, 22)

\* C14: after the invalidation pass for (date, habitId) the table holds no
\* global perfect_day row earned on date, no perfect_month row of habitId
\* and no global perfect_month row earned on the first day of date's month.
C14_DayAndMonthInvalidation ==
  last.op = "removeInvalidAchievements" =>
    /\ Count(achievements, "perfect_day", NULL, last.date) = 0
    /\ Count(achievements, "perfect_month", last.habitId, <<last.date[1], last.date[2], 1>>) = 0
    /\ Count(achievements, "perfect_month", NULL, <<last.date[1], last.date[2], 1>>) = 0

\* The pass has run for the last day of a month, the table holding before
\* it the day's perfect_day row and the month's perfect_month rows of the
\* habit and of the whole store.
C14_Witness ==
  /\ last.op = "removeInvalidAchievements"
  /\ last.date[3] = 31
  /\ Count(pre.achievements, "perfect_day", NULL, last.date) >= 1
  /\ Count(pre.achievements, "perfect_month", last.habitId, <<last.date[1], last.date[2], 1>>) = 1
  /\ Count(pre.achievements, "perfect_month", NULL, <<last.date[1], last.date[2], 1>>) >= 1
  /\ Count(achievements, "perfect_month", last.habitId, <<last.date[1], last.date[2], 1>>) = 0

\* The habits a view may show on date: not deleted on or before it.
ShownOn(hs, date) ==
  {h \in DOMAIN hs : hs[h].deleted => Ord(hs[h].deleted_date) > Ord(date)}

\* The ids of the rows or entries the last read operation returned.
ResultIds == {last.result[i].id : i \in DOMAIN last.result}

\* Habit h has completion records on exactly the k days ending at date:
\* on each of them and not on the day before them.
ExactRun(compl, h, date, k) ==
  /\ RunOf(compl, h, date, k)
  /\ <<DateOf[Ord(date) - k], h>> \notin compl

\* C15: when the viewing date is today and a habit has no completion record
\* for today but has them on exactly the k >= 1 days ending yesterday, the
\* streak list for today reports streak k for the habit.
C15_TodayShiftAnyHabit ==
  (last.op = "getStreaks" /\ last.date = today) =>
    \A h \in DOMAIN habits, k \in 1..Cardinality(completions) :
      (/\ <<today, h>> \notin completions
       /\ ExactRun(completions, h, DateOf[Ord(today) - 1], k))
      => \E i \in DOMAIN last.result :
           last.result[i].id = h /\ last.result[i].streak = k

\* C15 as the code has it: the same for every habit that is not deleted;
\* a deleted habit is not in the streak list for today.
C15_TodayShift ==
  (last.op = "getStreaks" /\ last.date = today) =>
    /\ \A h \in ShownOn(habits, today), k \in 1..Cardinality(completions) :
         (/\ <<today, h>> \notin completions
          /\ ExactRun(completions, h, DateOf[Ord(today) - 1], k))
         => \E i \in DOMAIN last.result :
              last.result[i].id = h /\ last.result[i].streak = k
    /\ \A h \in DOMAIN habits : habits[h].deleted => h \notin ResultIds

\* The streak list for today reports a streak of two or more for a habit
\* without a completion record for today.
C15_Witness ==
  /\ last.op = "getStreaks"
  /\ last.date = today
  /\ \E i \in DOMAIN last.result :
       /\ <<today, last.result[i].id>> \notin completions
       /\ last.result[i].streak >= 2

\* C16: for a visible habit with a completion record on the viewing date,
\* the streak list reports the number of consecutive days with completion
\* records ending at and including the viewing date, the count stopping at
\* the first day without one.
C16_StreakValue ==
  last.op = "getStreaks" =>
    \A h \in ShownOn(habits, last.date) :
      <<last.date, h>> \in completions =>
        \E i \in DOMAIN last.result :
          /\ last.result[i].id = h
          /\ ExactRun(completions, h, last.date, last.result[i].streak)

\* A reported streak that stops at a gap: the habit has completion records
\* on days before the day that ended the count.
C16_Witness ==
  /\ last.op = "getStreaks"
  /\ \E i \in DOMAIN last.result, d \in CalendarDays :
       /\ <<last.date, last.result[i].id>> \in completions
       /\ last.result[i].streak >= 7
       /\ Ord(d) < Ord(last.date) - last.result[i].streak
       /\ <<d, last.result[i].id>> \in completions

\* C17: the streak list holds only habits with streak > 0, in non-increasing
\* order of streak, habits of equal streak in display order; for a viewing
\* date other than today it holds no habit without a completion record on
\* the viewing date.
C17_StreakListShape ==
  last.op = "getStreaks" =>
    /\ \A i \in DOMAIN last.result : last.result[i].streak > 0
    /\ \A i, j \in DOMAIN last.result : i < j =>
         /\ last.result[i].streak >= last.result[j].streak
         /\ last.result[i].streak = last.result[j].streak =>
              habits[last.result[i].id].sort_order < habits[last.result[j].id].sort_order
    /\ last.date # today =>
         \A h \in ResultIds : <<last.date, h>> \in completions

\* For a past viewing date the list holds two habits, the later one in
\* display order first, its streak being the longer.
C17_Witness ==
  /\ last.op = "getStreaks"
  /\ last.date # today
  /\ \E i, j \in DOMAIN last.result :
       /\ i < j
       /\ last.result[i].streak > last.result[j].streak
       /\ habits[last.result[i].id].sort_order > habits[last.result[j].id].sort_order

\* C18: a habit deleted on day X is in the day view, and with a completion
\* record on the viewing date in the streak list, for every viewing date up
\* to and including X, and in neither for a viewing date after X.
C18_VisibleThroughDeletionDay ==
  last.op \in {"getDayView", "getStreaks"} =>
    \A h \in DOMAIN habits : habits[h].deleted =>
      /\ (/\ Ord(last.date) <= Ord(habits[h].deleted_date)
          /\ (last.op = "getStreaks" => <<last.date, h>> \in completions))
         => h \in ResultIds
      /\ Ord(last.date) > Ord(habits[h].deleted_date) => h \notin ResultIds

\* C18 as the code has it: a habit deleted on day X is in the day view, and
\* with a completion record on the viewing date in the streak list, for
\* every viewing date before X, and in neither for X and the dates after X.
C18_VisibleBeforeDeletionDay ==
  last.op \in {"getDayView", "getStreaks"} =>
    \A h \in DOMAIN habits : habits[h].deleted =>
      /\ (/\ Ord(last.date) < Ord(habits[h].deleted_date)
          /\ (last.op = "getStreaks" => <<last.date, h>> \in completions))
         => h \in ResultIds
      /\ Ord(last.date) >= Ord(habits[h].deleted_date) => h \notin ResultIds

\* The day view of the day a habit was deleted on does not hold the habit.
C18_Witness ==
  /\ last.op = "getDayView"
  /\ \E h \in DOMAIN habits :
       /\ habits[h].deleted
       /\ last.date = habits[h].deleted_date
       /\ h \notin ResultIds

\* C19: when the process stops inside the award pass, the table is the one
\* of before the call; while the pass runs the table of the database is
\* still that one, and after the pass has returned it is the table of the
\* complete pass: no table holds a part of the pass.
C19_AtomicAwardPass ==
  /\ (tx.pc # 0 /\ tx.op = "checkAchievements") => achievements = pre.achievements
  /\ (last.op = "interrupted" /\ last.call = "checkAchievements") =>
       achievements = pre.achievements
  /\ last.op = "checkAchievements" =>
       achievements =
         checkAchievements(pre.habits, pre.completions, pre.achievements, last.date)

\* The process has stopped after the perfect_day insert of the pass and
\* before its last group of inserts.
C19_Witness ==
  /\ last.op = "interrupted"
  /\ last.call = "checkAchievements"
  /\ last.pc \in 2..Stages
  /\ \E r \in last.work \ achievements : r.type = "perfect_day"

\* C20: when a write of the award pass or of the invalidation pass fails,
\* the table is the one of before the call.
C20_FailureLeavesUnchanged ==
  last.op = "storageFailure" => achievements = pre.achievements

\* A delete of the invalidation pass has failed after earlier deletes of the
\* pass had removed rows.
C20_Witness ==
  /\ last.op = "storageFailure"
  /\ last.pc >= 2
  /\ last.work # achievements
  /\ last.call = "removeInvalidAchievements"

\* C21: every completion toggle of the day route leaves the achievements
\* updated with the completion: by the award pass for date when the
\* completion was added, by the invalidation pass for (date, habitId) when
\* it was removed; no state has the completion changed and the achievements
\* not updated.
C21_ToggleDrivesEngine ==
  last.op = "toggleCompletion" =>
    achievements =
      IF last.completed
        THEN checkAchievements(habits, completions, pre.achievements, last.date)
        ELSE removeInvalidAchievements(pre.achievements, last.date, last.habitId)

\* C22: however the completion writes, award passes and invalidation passes
\* of toggle events interleave, the table never holds two rows with the
\* same (type, habit id or global, earned date).
C22_UniqueUnderInterleaving ==
  \A r, s \in achievements :
    (r.type = s.type /\ r.habit_id = s.habit_id /\ r.earned_date = s.earned_date)
      => r = s

\* C26: after any sequence of addHabit, renameHabit, deleteHabit and
\* reorderHabits every habit has a deletion date if and only if its deleted
\* flag is set; no operation removes a habit row or changes a creation date.
C26_HabitTombstone ==
  /\ \A h \in DOMAIN habits : habits[h].deleted <=> habits[h].deleted_date # NULL
  /\ \A h \in DOMAIN pre.habits :
       /\ h \in DOMAIN habits
       /\ habits[h].created_date = pre.habits[h].created_date

\* A habit deleted on an earlier day has been deleted again: it is still in
\* the table, with the flag and today as its deletion date.
C26_Witness ==
  /\ last.op = "deleteHabit"
  /\ pre.habits[last.habitId].deleted
  /\ habits[last.habitId].deleted
  /\ habits[last.habitId].deleted_date = today
  /\ pre.habits[last.habitId].deleted_date # today

\* C27: after any sequence of addHabit and reorderHabits(ids), ids a list of
\* habit ids that may omit habits, the sort_order values of the habits are
\* pairwise distinct and are the numbers 0 .. n-1.
C27_DisplayOrderDense ==
  {habits[h].sort_order : h \in DOMAIN habits} = 0..(Cardinality(DOMAIN habits) - 1)

\* C28: toggleCompletion(date, h, true) leaves the record (date, h) present
\* and changes nothing when it was present; toggleCompletion(date, h, false)
\* leaves it absent and changes nothing when it was absent; neither changes
\* a record of another (date, habit id).
C28_CompletionSet ==
  last.op = "toggleCompletion" =>
    /\ <<last.date, last.habitId>> \in completions <=> last.completed
    /\ (<<last.date, last.habitId>> \in pre.completions <=> last.completed) =>
         completions = pre.completions
    /\ completions \ {<<last.date, last.habitId>>}
         = pre.completions \ {<<last.date, last.habitId>>}

\* A record has been removed on a day for which another habit keeps its own.
C28_Witness ==
  /\ last.op = "toggleCompletion"
  /\ ~last.completed
  /\ <<last.date, last.habitId>> \in pre.completions
  /\ \E h \in DOMAIN habits : h # last.habitId /\ <<last.date, h>> \in completions

\* The rows of type for hid (NULL: the global rows) in the table.
RowsFor(type, hid) == {r \in achievements : r.type = type /\ r.habit_id = hid}

\* A summary entry gives the number of the rows and the greatest of their
\* earned dates, or 0 and null when there is no row.
Summarises(entry, type, rows) ==
  /\ entry.type = type
  /\ entry.count = Cardinality(rows)
  /\ IF rows = {} THEN entry.latestDate = NULL
     ELSE /\ \E r \in rows : r.earned_date = entry.latestDate
          /\ \A r \in rows : Ord(r.earned_date) <= Ord(entry.latestDate)

\* C29: the summary gives, for perfect_day, streak_7, streak_14, streak_21
\* and perfect_month in this order, the number of global rows of the type
\* and their greatest earned date (0 and null without rows), and for each
\* habit that is not deleted, and no other, the same for the habit's rows
\* of streak_7, streak_14, streak_21 and perfect_month.
C29_AchievementSummary ==
  last.op = "getAchievements" =>
    /\ DOMAIN last.result.global = 1..5
    /\ \A i \in 1..5 :
         Summarises(last.result.global[i],
                    <<"perfect_day", "streak_7", "streak_14", "streak_21", "perfect_month">>[i],
                    RowsFor(<<"perfect_day", "streak_7", "streak_14", "streak_21", "perfect_month">>[i], NULL))
    /\ DOMAIN last.result.perHabit = {h \in DOMAIN habits : ~habits[h].deleted}
    /\ \A h \in DOMAIN last.result.perHabit :
         /\ last.result.perHabit[h].name = habits[h].name
         /\ DOMAIN last.result.perHabit[h].achievements = 1..4
         /\ \A i \in 1..4 :
              Summarises(last.result.perHabit[h].achievements[i],
                         <<"streak_7", "streak_14", "streak_21", "perfect_month">>[i],
                         RowsFor(<<"streak_7", "streak_14", "streak_21", "perfect_month">>[i], h))

\* The summary counts several rows of a habit's streak_7 earned on different
\* days, counts a global row held twice as two, and leaves out a deleted
\* habit that has rows.
C29_Witness ==
  /\ last.op = "getAchievements"
  /\ \E h \in DOMAIN last.result.perHabit :
       /\ last.result.perHabit[h].achievements[1].count >= 2
       /\ \E r \in RowsFor("streak_7", h) :
            Ord(r.earned_date) < Ord(last.result.perHabit[h].achievements[1].latestDate)
  /\ \E r \in achievements : r.habit_id = NULL /\ r.copy = 2
  /\ \E h \in DOMAIN habits \ DOMAIN last.result.perHabit : \E r \in achievements : r.habit_id = h

\* C30: the day view of date lists a habit if and only if it is not deleted
\* with a deletion date <= date, and the streak list of date takes its
\* habits from the same ones, whatever their creation date: a habit is
\* listed on viewing dates before its creation.  The award pass for date
\* inserts per-habit rows only for habits created on or before date.
C30_VisibilityAsImplemented ==
  /\ last.op = "getDayView" => ResultIds = ShownOn(habits, last.date)
  /\ last.op = "getStreaks" =>
       /\ ResultIds \subseteq ShownOn(habits, last.date)
       /\ \A h \in ShownOn(habits, last.date) :
            <<last.date, h>> \in completions => h \in ResultIds
  /\ last.op = "checkAchievements" =>
       \A r \in Inserted : r.habit_id # NULL =>
         Ord(habits[r.habit_id].created_date) <= Ord(last.date)

\* The streak list of a day before the creation of a habit reports the
\* habit, from completion records older than the habit.
C30_Witness ==
  /\ last.op = "getStreaks"
  /\ \E i \in DOMAIN last.result :
       /\ Ord(habits[last.result[i].id].created_date) > Ord(last.date)
       /\ last.result[i].streak >= 7

\* C23: checkAchievements, removeInvalidAchievements, getStreaks and
\* getAchievements leave the habits and the completion records as they were
\* before the call.
C23_EngineFrame ==
  last.op \in {"checkAchievements", "removeInvalidAchievements", "getStreaks",
               "getAchievements"} =>
    /\ habits = pre.habits
    /\ completions = pre.completions

\* The invalidation pass has removed rows for a day the habit still has a
\* completion record for.
C23_Witness ==
  /\ last.op = "removeInvalidAchievements"
  /\ Removed # {}
  /\ <<last.date, last.habitId>> \in completions

\* C24: checkAchievements removes no row, removeInvalidAchievements inserts
\* no row, and no other operation (on habits, on completions, the day view,
\* the streak list, the summary) changes the achievements table.
C24_SingleWriterPerDirection ==
  /\ last.op = "checkAchievements" => pre.achievements \subseteq achievements
  /\ last.op = "removeInvalidAchievements" => achievements \subseteq pre.achievements
  /\ last.op \notin {"checkAchievements", "removeInvalidAchievements"} =>
       achievements = pre.achievements

\* The award pass has inserted rows into a table that held per-habit rows of
\* the same date already, and these are still there.
C24_Witness ==
  /\ last.op = "checkAchievements"
  /\ Inserted # {}
  /\ \E r \in pre.achievements : r.habit_id # NULL /\ r.earned_date = last.date

\* C25: in every reachable state each per-habit row is the row of a habit of
\* the habits table, created on or before the row's earned date.
C25_RowsReferToExistingHabits ==
  \A r \in achievements : r.habit_id # NULL =>
    /\ r.habit_id \in DOMAIN habits
    /\ Ord(habits[r.habit_id].created_date) <= Ord(r.earned_date)

\* The award pass has run for a day before the creation of a habit that has
\* completion records on the seven days ending there: the habit has rows of
\* later days and none of that day.
C25_Witness ==
  /\ last.op = "checkAchievements"
  /\ \E h \in DOMAIN habits :
       /\ Ord(habits[h].created_date) > Ord(last.date)
       /\ RunOf(completions, h, last.date, 7)
       /\ \E r \in achievements : r.habit_id = h
       /\ \A r \in achievements : r.habit_id = h => r.earned_date # last.date

\* C31: in every table the two passes produce from an empty one, for every
\* habit and for the global key, a streak_21 row at E has a streak_14 row at
\* E beside it and a streak_14 row a streak_7 row, and a global streak_N row
\* at E has a global perfect_day row at E beside it.
C31_ThresholdNesting ==
  \A r \in achievements :
    /\ r.type = "streak_21" => Count(achievements, "streak_14", r.habit_id, r.earned_date) > 0
    /\ r.type = "streak_14" => Count(achievements, "streak_7", r.habit_id, r.earned_date) > 0
    /\ (r.type \in StreakTypes /\ r.habit_id = NULL) =>
         Count(achievements, "perfect_day", NULL, r.earned_date) > 0

\* The invalidation pass has removed the streak_21 row of a day, of the
\* habit and of the global key, and has left the streak_14 and streak_7
\* rows of that day, and the global perfect_day row, in place.
C31_Witness ==
  /\ last.op = "removeInvalidAchievements"
  /\ \E r \in Removed, g \in Removed :
       /\ r.type = "streak_21" /\ r.habit_id = last.habitId
       /\ Count(achievements, "streak_14", r.habit_id, r.earned_date) = 1
       /\ Count(achievements, "streak_7", r.habit_id, r.earned_date) = 1
       /\ g.type = "streak_21" /\ g.habit_id = NULL
       /\ Count(achievements, "streak_14", NULL, g.earned_date) > 0
       /\ Count(achievements, "streak_7", NULL, g.earned_date) > 0
       /\ Count(achievements, "perfect_day", NULL, g.earned_date) > 0

\* C32: with every toggle-on followed by the award pass and every toggle-off
\* by the invalidation pass, every global perfect_day row at D has a
\* non-empty set of habits active on D, each with a completion record for D;
\* also after a habit is created on D once perfect_day at D is in the table.
C32_NoStalePerfectDay ==
  \A r \in achievements : (r.type = "perfect_day" /\ r.habit_id = NULL) =>
    PerfectDay(habits, completions, r.earned_date)

\* The condition the award pass tests for a row, in the current state.
Qualifies(r) ==
  IF r.type = "perfect_day" THEN PerfectDay(habits, completions, r.earned_date)
  ELSE IF r.type \in StreakTypes THEN
    IF r.habit_id = NULL
      THEN \A i \in 0..(Length(r.type) - 1) :
             PerfectDay(habits, completions, DateOf[Ord(r.earned_date) - i])
      ELSE /\ r.habit_id \in ActiveSet(habits, r.earned_date)
           /\ RunOf(completions, r.habit_id, r.earned_date, Length(r.type))
  ELSE IF r.habit_id = NULL
    THEN \A d \in MonthDays(r.earned_date) : PerfectDay(habits, completions, d)
    ELSE /\ Ord(habits[r.habit_id].created_date) <= Ord(r.earned_date)
         /\ \A d \in MonthDays(r.earned_date) : <<d, r.habit_id>> \in completions

\* C33: the invalidation pass for (D, H), run once the completion record
\* (D, H) is removed, removes no row whose qualifying condition holds in the
\* resulting state; when H is not active for achievements on D, or had no
\* completion record on D, the global rows stay in place.
C33_InvalidationPrecision ==
  last.op = "toggleOff" => \A r \in Removed : ~Qualifies(r)

\* C34: once a toggle-off has removed the completion record (D, H) and run
\* the invalidation pass for (D, H), setting the completion again and
\* running the award pass for D gives the achievements table its value of
\* before the toggle-off, streak_N rows earned after D and perfect_month
\* rows of the month of D included.
C34_ToggleRoundTrip ==
  (last.op = "toggleOff" /\ <<last.date, last.habitId>> \in pre.completions) =>
    checkAchievements(habits,
                      toggleCompletion(completions, last.date, last.habitId, TRUE),
                      achievements, last.date)
      = pre.achievements

\* C35: deleteHabit called for a habit that is deleted already, on a later
\* day than its first deletion, leaves the deleted_date of the habit, and
\* with it the habits active for achievements on every viewing date, as they
\* were.
C35_DeletionDateFixed ==
  (/\ last.op = "deleteHabit"
   /\ pre.habits[last.habitId].deleted
   /\ Ord(pre.habits[last.habitId].deleted_date) < Ord(last.date)) =>
    /\ habits[last.habitId].deleted_date = pre.habits[last.habitId].deleted_date
    /\ \A d \in ViewDates : ActiveSet(habits, d) = ActiveSet(pre.habits, d)

=============================================================================
